---- MODULE Spec2Model ----
(***************************************************************************)
(* A model of the two slot maps of the repository:                        *)
(*   std : the direct layout, standard.rs   (one vector of tagged slots)   *)
(*   ind : the indirect layout, lib.rs (and its copy indirection.rs: a     *)
(*         slot vector of indirect indices plus a dense item vector)       *)
(* One caller script (insert / remove / get calls) is applied to one map   *)
(* of each layout, in lock step.  A map whose call panicked is dead: its   *)
(* program has been aborted and it takes no further calls.                 *)
(***************************************************************************)
EXTENDS Integers, Sequences, FiniteSets, TLC

VARIABLES std, ind, stdPanic, indPanic, issued, stdFreed, indFreed, last, it,
          stdVacated, stdPeak, rt

vars == <<std, ind, stdPanic, indPanic, issued, stdFreed, indFreed, last, it,
          stdVacated, stdPeak, rt>>

\* ------------------------------------------------------------------ bounds

\* Number of insert calls of one script.
MaxInserts == 4

\* The values a caller inserts.  T is an unconstrained type parameter and no
\* code of either map inspects a value, so pairwise distinct values are the
\* most general input: the n-th insert call inserts ValueOf(n).
ValueOf(n) == <<"v", n>>

\* The value of a slot that holds none.
NoValue == <<"-", 0>>

\* ------------------------------------------------------------------ values

\* Vec indexing is 0-based, a TLA+ sequence 1-based.
At(vec, i) == vec[i + 1]

InRange(vec, i) == i >= 0 /\ i < Len(vec)

Set(vec, i, x) == [vec EXCEPT ![i + 1] = x]

\* Vec::pop on a non-empty vector: the vector that is left.
PopRest(vec) == SubSeq(vec, 1, Len(vec) - 1)

Last(vec) == vec[Len(vec)]

\* A remove that closes the gap and keeps the order.
ShiftRemove(vec, i) ==
    [j \in 1..(Len(vec) - 1) |-> IF j <= i THEN vec[j] ELSE vec[j + 1]]

\* Vec::swap_remove(i): the last element takes the place of element i.
SwapRemove(vec, i) ==
    IF i = Len(vec) - 1 THEN PopRest(vec) ELSE PopRest(Set(vec, i, Last(vec)))

\* A swap_remove that hands back the element it moved.
SwapRemovedLast(vec, i) == Last(vec)

\* Vec::swap_remove(i): the element it returns.
SwapRemoved(vec, i) == At(vec, i)

Key(i, g) == [index |-> i, generation |-> g]

\* What a call that returned no key (it panicked, or its map is dead) gives.
NoKey == [index |-> -1, generation |-> -1]

\* A next() that forgets to count.
GenNextSame(g) == g

\* A next() that counts twice.
GenNextSkip(g) == g + 2

\* Generation::next
GenNext(g) == g + 1

None == [some |-> FALSE, value |-> NoValue]

Some(v) == [some |-> TRUE, value |-> v]

\* The result slot of a call on a dead map: no call was made.
Dead == [some |-> FALSE, value |-> <<"dead", 0>>]

\* ------------------------------------------------------- direct layout

StdOccupied(g, v) == [tag |-> "Occupied", generation |-> g, value |-> v]

StdVacant(g) == [tag |-> "Vacant", generation |-> g, value |-> NoValue]

StdNew == [slots |-> <<>>, free |-> <<>>]

\* A get that forgets the generation.
StdGetAnyGeneration(m, key) ==
    IF InRange(m.slots, key.index) /\ At(m.slots, key.index).tag = "Occupied"
    THEN Some(At(m.slots, key.index).value)
    ELSE None

StdGet(m, key) ==
    IF InRange(m.slots, key.index)
       /\ At(m.slots, key.index).tag = "Occupied"
       /\ At(m.slots, key.index).generation = key.generation
    THEN Some(At(m.slots, key.index).value)
    ELSE None

StdGetMut(m, key) ==
    IF InRange(m.slots, key.index)
       /\ At(m.slots, key.index).tag = "Occupied"
       /\ At(m.slots, key.index).generation = key.generation
    THEN Some(At(m.slots, key.index).value)
    ELSE None

\* An insert that takes the oldest free position.
StdInsertFifo(m, value) ==
    IF m.free # <<>>
    THEN LET index == Head(m.free)
             generation == At(m.slots, index).generation
         IN  [map |-> [slots |-> Set(m.slots, index, StdOccupied(generation, value)),
                       free |-> Tail(m.free)],
              key |-> Key(index, generation),
              panic |-> "none"]
    ELSE [map |-> [m EXCEPT !.slots = Append(m.slots, StdOccupied(0, value))],
          key |-> Key(Len(m.slots), 0),
          panic |-> "none"]

\* An insert that reuses a position only when two are free.
StdInsertKeepsOneFree(m, value) ==
    IF Len(m.free) >= 2
    THEN LET index == Last(m.free)
             generation == At(m.slots, index).generation
         IN  [map |-> [slots |-> Set(m.slots, index, StdOccupied(generation, value)),
                       free |-> PopRest(m.free)],
              key |-> Key(index, generation),
              panic |-> "none"]
    ELSE [map |-> [m EXCEPT !.slots = Append(m.slots, StdOccupied(0, value))],
          key |-> Key(Len(m.slots), 0),
          panic |-> "none"]

\* insert: [map, key, panic]; after a panic the map is as the unwinding leaves it.
StdInsert(m, value) ==
    IF m.free # <<>>
    THEN LET index == Last(m.free)
             popped == [m EXCEPT !.free = PopRest(m.free)]
         IN  IF ~InRange(m.slots, index)
             THEN [map |-> popped, key |-> NoKey, panic |-> "bounds"]
             ELSE IF At(m.slots, index).tag = "Vacant"
             THEN LET generation == At(m.slots, index).generation
                  IN  [map |-> [popped EXCEPT
                                  !.slots = Set(m.slots, index,
                                                StdOccupied(generation, value))],
                       key |-> Key(index, generation),
                       panic |-> "none"]
             ELSE [map |-> popped, key |-> NoKey, panic |-> "unreachable"]
    ELSE LET generation == 0
         IN  [map |-> [m EXCEPT
                         !.slots = Append(m.slots, StdOccupied(generation, value))],
              key |-> Key(Len(m.slots), generation),
              panic |-> "none"]

\* A validation that forgets the generation.
StdRemoveValidAnyGeneration(m, key) ==
    InRange(m.slots, key.index) /\ At(m.slots, key.index).tag = "Occupied"

\* remove's validation of its key: self.get(key).is_some()
StdRemoveValid(m, key) == StdGet(m, key).some

\* A remove that vacates the slot without a new generation.
StdRemoveKeepsGeneration(m, key) ==
    IF StdGet(m, key).some
    THEN [map |-> [slots |-> Set(m.slots, key.index, StdVacant(key.generation)),
                   free |-> Append(m.free, key.index)],
          res |-> Some(At(m.slots, key.index).value),
          panic |-> "none"]
    ELSE [map |-> m, res |-> None, panic |-> "none"]

\* A remove that does not hand the position to the free list.
StdRemoveNoPush(m, key) ==
    IF StdGet(m, key).some
    THEN [map |-> [m EXCEPT !.slots = Set(m.slots, key.index,
                                          StdVacant(GenNext(key.generation)))],
          res |-> Some(At(m.slots, key.index).value),
          panic |-> "none"]
    ELSE [map |-> m, res |-> None, panic |-> "none"]

\* remove: [map, res, panic]
StdRemove(m, key) ==
    IF StdRemoveValid(m, key)
    THEN LET pushed == [m EXCEPT !.free = Append(m.free, key.index)]
             old == At(m.slots, key.index)
             replaced == [pushed EXCEPT
                            !.slots = Set(m.slots, key.index,
                                          StdVacant(GenNext(key.generation)))]
         IN  IF old.tag = "Occupied"
             THEN [map |-> replaced, res |-> Some(old.value), panic |-> "none"]
             ELSE [map |-> replaced, res |-> None, panic |-> "unreachable"]
    ELSE [map |-> m, res |-> None, panic |-> "none"]

\* A len that forgets the free list.
StdLenAllSlots(m) == Len(m.slots)

StdLen(m) == Len(m.slots) - Len(m.free)

StdIsEmpty(m) == StdLen(m) = 0

\* The closure of iter(): a pair for an Occupied slot, nothing for a Vacant one.
StdIterFn(index, slot) ==
    IF slot.tag = "Occupied"
    THEN Some(<<Key(index, slot.generation), slot.value>>)
    ELSE None

\* The closure of iter_mut().
StdIterMutFn(index, slot) ==
    IF slot.tag = "Occupied"
    THEN Some(<<Key(index, slot.generation), slot.value>>)
    ELSE None

\* A consuming closure that forgets to skip the Vacant slots.
StdIntoIterFnNoSkip(index, slot) ==
    Some(<<Key(index, slot.generation), slot.value>>)

\* The closure of into_iter().
StdIntoIterFn(index, slot) ==
    IF slot.tag = "Occupied"
    THEN Some(<<Key(index, slot.generation), slot.value>>)
    ELSE None

StdIterKinds == {"iter", "iter_mut", "into_iter"}

StdClosure(kind, index, slot) ==
    CASE kind = "iter" -> StdIterFn(index, slot)
      [] kind = "iter_mut" -> StdIterMutFn(index, slot)
      [] kind = "into_iter" -> StdIntoIterFn(index, slot)

\* slots.iter().enumerate(): the slice iterator's range [lo, hi) and the
\* counter of Enumerate.
StdIterNew(m) == [lo |-> 0, hi |-> Len(m.slots), count |-> 0]

\* An Enumerate whose next_back numbers the element from the slice's start.
StdEnumBackIndexNoCount(st) == st.hi - 1 - st.lo

\* Enumerate::next_back: the index is count + the length left after the pop.
StdEnumBackIndex(st) == st.count + (st.hi - 1 - st.lo)

\* FilterMap<Enumerate<_>>::next: [st, res]
RECURSIVE StdIterNext(_, _, _)
StdIterNext(kind, m, st) ==
    IF st.lo >= st.hi
    THEN [st |-> st, res |-> None]
    ELSE LET st1 == [st EXCEPT !.lo = st.lo + 1, !.count = st.count + 1]
             y == StdClosure(kind, st.count, At(m.slots, st.lo))
         IN  IF y.some THEN [st |-> st1, res |-> y] ELSE StdIterNext(kind, m, st1)

\* FilterMap<Enumerate<_>>::next_back: [st, res]
RECURSIVE StdIterNextBack(_, _, _)
StdIterNextBack(kind, m, st) ==
    IF st.lo >= st.hi
    THEN [st |-> st, res |-> None]
    ELSE LET st1 == [st EXCEPT !.hi = st.hi - 1]
             y == StdClosure(kind, StdEnumBackIndex(st), At(m.slots, st.hi - 1))
         IN  IF y.some THEN [st |-> st1, res |-> y]
             ELSE StdIterNextBack(kind, m, st1)

\* An index that gives up quietly, as get does.
StdIndexQuiet(m, key) == [res |-> StdGet(m, key), panic |-> "none"]

\* Index<Key>::index: self.get(key).unwrap(); [res, panic]
StdIndex(m, key) ==
    IF StdGet(m, key).some
    THEN [res |-> StdGet(m, key), panic |-> "none"]
    ELSE [res |-> None, panic |-> "unwrap"]

\* IndexMut<Key>::index_mut: self.get_mut(key).unwrap()
StdIndexMut(m, key) ==
    IF StdGetMut(m, key).some
    THEN [res |-> StdGetMut(m, key), panic |-> "none"]
    ELSE [res |-> None, panic |-> "unwrap"]

\* The slot the reference of get_mut / index_mut points into.
StdPlace(m, key) == key.index

\* A write that also renews the slot's generation.
StdAssignNewGeneration(m, index, w) ==
    [m EXCEPT !.slots = Set(m.slots, index,
                            StdOccupied(GenNext(At(m.slots, index).generation), w))]

\* *value = w through a reference into the slot at index.
StdAssign(m, index, w) ==
    [m EXCEPT !.slots = Set(m.slots, index,
                            [At(m.slots, index) EXCEPT !.value = w])]

\* ------------------------------------------------------ indirect layout

Item(v, k) == [value |-> v, key |-> k]

Occupied(i) == [tag |-> "Occupied", n |-> i]

Vacant(g) == [tag |-> "Vacant", n |-> g]

IndNew == [items |-> <<>>, slots |-> <<>>, free |-> <<>>]

\* get: [res, panic]; items[indirect_index] panics out of bounds.
IndGet(m, key) ==
    IF InRange(m.slots, key.index) /\ At(m.slots, key.index).tag = "Occupied"
    THEN LET indirect_index == At(m.slots, key.index).n
         IN  IF ~InRange(m.items, indirect_index)
             THEN [res |-> None, panic |-> "bounds"]
             ELSE IF At(m.items, indirect_index).key.generation = key.generation
             THEN [res |-> Some(At(m.items, indirect_index).value), panic |-> "none"]
             ELSE [res |-> None, panic |-> "none"]
    ELSE [res |-> None, panic |-> "none"]

IndGetMut(m, key) ==
    IF InRange(m.slots, key.index) /\ At(m.slots, key.index).tag = "Occupied"
    THEN LET indirect_index == At(m.slots, key.index).n
         IN  IF ~InRange(m.items, indirect_index)
             THEN [res |-> None, panic |-> "bounds"]
             ELSE IF At(m.items, indirect_index).key.generation = key.generation
             THEN [res |-> Some(At(m.items, indirect_index).value), panic |-> "none"]
             ELSE [res |-> None, panic |-> "none"]
    ELSE [res |-> None, panic |-> "none"]

\* An indirect index that is one past the pushed item.
IndNewIndexOffByOne(items) == Len(items)

\* The indirect index insert stores: self.items.len() - 1, after the push.
IndNewIndex(items) == Len(items) - 1

\* insert: [map, key, panic]
IndInsert(m, value) ==
    IF m.free # <<>>
    THEN LET index == Last(m.free)
             popped == [m EXCEPT !.free = PopRest(m.free)]
         IN  IF ~InRange(m.slots, index)
             THEN [map |-> popped, key |-> NoKey, panic |-> "bounds"]
             ELSE IF At(m.slots, index).tag = "Vacant"
             THEN LET key == Key(index, At(m.slots, index).n)
                      items == Append(m.items, Item(value, key))
                  IN  [map |-> [popped EXCEPT
                                  !.items = items,
                                  !.slots = Set(m.slots, index,
                                                Occupied(IndNewIndex(items)))],
                       key |-> key,
                       panic |-> "none"]
             ELSE [map |-> popped, key |-> NoKey, panic |-> "unreachable"]
    ELSE LET key == Key(Len(m.slots), 0)
             items == Append(m.items, Item(value, key))
         IN  [map |-> [m EXCEPT
                         !.items = items,
                         !.slots = Append(m.slots, Occupied(IndNewIndex(items)))],
              key |-> key,
              panic |-> "none"]

\* The position remove pushes onto the free list.
IndFreedPosition(key, indirect_index) == indirect_index

\* A swap-removal that forgets the moved item's slot.
IndFixupForgotten(slots, last_item_index, indirect_index) == slots

\* A fix-up of the slot at the dense index, not of the slot that owns the item.
IndFixupWrongSlot(slots, last_item_index, indirect_index) ==
    Set(slots, indirect_index, Occupied(indirect_index))

\* A fix-up that is one dense index too far.
IndFixupOffByOne(slots, last_item_index, indirect_index) ==
    Set(slots, last_item_index, Occupied(indirect_index + 1))

\* The fix-up of the slot that owns the item swap_remove moves.
IndFixup(slots, last_item_index, indirect_index) ==
    Set(slots, last_item_index, Occupied(indirect_index))

\* remove: [map, res, panic]
IndRemove(m, key) ==
    IF IndGet(m, key).panic # "none"
    THEN [map |-> m, res |-> None, panic |-> IndGet(m, key).panic]
    ELSE IF IndGet(m, key).res.some
    THEN LET indirect_index == At(m.slots, key.index).n
             pushed == Append(m.free, IndFreedPosition(key, indirect_index))
             slots1 == Set(m.slots, key.index, Vacant(GenNext(key.generation)))
         IN  IF indirect_index = Len(m.items) - 1
             THEN [map |-> [items |-> PopRest(m.items), slots |-> slots1,
                            free |-> pushed],
                   res |-> Some(Last(m.items).value),
                   panic |-> "none"]
             ELSE LET last_item_index == Last(m.items).key.index
                  IN  IF ~InRange(slots1, last_item_index)
                      THEN [map |-> [m EXCEPT !.slots = slots1, !.free = pushed],
                            res |-> None, panic |-> "bounds"]
                      ELSE [map |-> [items |-> SwapRemove(m.items, indirect_index),
                                     slots |-> IndFixup(slots1, last_item_index,
                                                        indirect_index),
                                     free |-> pushed],
                            res |-> Some(SwapRemoved(m.items, indirect_index).value),
                            panic |-> "none"]
    ELSE [map |-> m, res |-> None, panic |-> "none"]

IndLen(m) == Len(m.items)

\* The predicates retain is called with: keep the values numbered in S.
F(S, key, val) == val[2] \in S

\* A retain loop that steps on after a removal too.
RECURSIVE IndRetainLoopStepsOn(_, _, _, _)
IndRetainLoopStepsOn(m, i, S, removed) ==
    IF ~(i < Len(m.items))
    THEN [map |-> m, removed |-> removed, panic |-> "none"]
    ELSE LET key == At(m.items, i).key
             val == At(m.items, i).value
         IN  IF F(S, key, val)
             THEN IndRetainLoopStepsOn(m, i + 1, S, removed)
             ELSE IndRetainLoopStepsOn(IndRemove(m, key).map, i + 1, S,
                                       removed \cup {key})

\* The while loop of retain from position i: [map, removed, panic].  A
\* remove that returned nothing would leave the loop where it is, forever.
RECURSIVE IndRetainLoop(_, _, _, _)
IndRetainLoop(m, i, S, removed) ==
    IF ~(i < Len(m.items))
    THEN [map |-> m, removed |-> removed, panic |-> "none"]
    ELSE LET key == At(m.items, i).key
             val == At(m.items, i).value
             r == IndRemove(m, key)
         IN  IF F(S, key, val)
             THEN IndRetainLoop(m, i + 1, S, removed)
             ELSE IF r.panic # "none"
             THEN [map |-> r.map, removed |-> removed, panic |-> r.panic]
             ELSE IF ~r.res.some
             THEN [map |-> r.map, removed |-> removed, panic |-> "hang"]
             ELSE IndRetainLoop(r.map, i, S, removed \cup {key})

\* retain(f): let mut i = 0; while ...
IndRetain(m, S) == IndRetainLoop(m, 0, S, {})

\* A loop body that steps on after a removal too.
IndRetainBodyStepsOn(m, i, S) ==
    LET key == At(m.items, i).key
        val == At(m.items, i).value
        r == IndRemove(m, key)
    IN  IF F(S, key, val)
        THEN [map |-> m, i |-> i + 1, key |-> key, removed |-> {},
              panic |-> "none", spins |-> FALSE]
        ELSE [map |-> r.map, i |-> i + 1, key |-> key, removed |-> {key},
              panic |-> r.panic, spins |-> FALSE]

\* One pass through the body of retain's while loop, entered with
\* i < self.items.len(): [map, i, key, removed, panic, spins].  key is the
\* key f was called with; after a remove that returned nothing the next
\* pass is this pass again (spins).
IndRetainBody(m, i, S) ==
    LET key == At(m.items, i).key
        val == At(m.items, i).value
        r == IndRemove(m, key)
    IN  IF F(S, key, val)
        THEN [map |-> m, i |-> i + 1, key |-> key, removed |-> {},
              panic |-> "none", spins |-> FALSE]
        ELSE [map |-> r.map, i |-> i, key |-> key,
              removed |-> IF r.res.some THEN {key} ELSE {},
              panic |-> r.panic,
              spins |-> r.panic = "none" /\ ~r.res.some]

IndIsEmpty(m) == Len(m.items) = 0

\* Index<Key>::index: self.get(index).unwrap(); [res, panic]
IndIndex(m, key) ==
    IF IndGet(m, key).panic # "none"
    THEN IndGet(m, key)
    ELSE IF IndGet(m, key).res.some
    THEN IndGet(m, key)
    ELSE [res |-> None, panic |-> "unwrap"]

\* IndexMut<Key>::index_mut: self.get_mut(index).unwrap()
IndIndexMut(m, key) ==
    IF IndGetMut(m, key).panic # "none"
    THEN IndGetMut(m, key)
    ELSE IF IndGetMut(m, key).res.some
    THEN IndGetMut(m, key)
    ELSE [res |-> None, panic |-> "unwrap"]

\* The dense index the reference of get_mut / index_mut points into:
\* &mut self.items[indirect_index].value
IndPlace(m, key) == At(m.slots, key.index).n

\* *value = w through a reference into the item at indirect_index.
IndAssign(m, indirect_index, w) ==
    [m EXCEPT !.items = Set(m.items, indirect_index,
                            [At(m.items, indirect_index) EXCEPT !.value = w])]

\* Iter::next's closure: |item| (item.key, &item.value)
IndIterFn(item) == <<item.key, item.value>>

\* IterMut::next's closure.
IndIterMutFn(item) == <<item.key, item.value>>

\* IntoIter::next's closure.
IndIntoIterFn(item) == <<item.key, item.value>>

\* A values() that hands out a placeholder for every value.
ValuesFnPlaceholder(pair) == NoValue

\* Values / ValuesMut / IntoValues: |(_, value)| value
ValuesFn(pair) == pair[2]

\* Keys: |(key, _)| key
KeysFn(pair) == pair[1]

IndIterKinds ==
    {"iter", "iter_mut", "into_iter", "keys", "values", "values_mut", "into_values"}

\* What one element of the dense array becomes in an iterator of a kind.
IndClosure(kind, item) ==
    CASE kind = "iter" -> IndIterFn(item)
      [] kind = "iter_mut" -> IndIterMutFn(item)
      [] kind = "into_iter" -> IndIntoIterFn(item)
      [] kind = "keys" -> KeysFn(IndIterFn(item))
      [] kind = "values" -> ValuesFn(IndIterFn(item))
      [] kind = "values_mut" -> ValuesFn(IndIterMutFn(item))
      [] kind = "into_values" -> ValuesFn(IndIntoIterFn(item))

\* An iterator that starts after the first item.
IndIterNewSkipsFirst(m) ==
    [lo |-> IF Len(m.items) > 1 THEN 1 ELSE 0, hi |-> Len(m.items)]

\* self.items.iter(): the slice iterator's range [lo, hi).
IndIterNew(m) == [lo |-> 0, hi |-> Len(m.items)]

\* next of every iterator of lib.rs: [st, res]
IndIterNext(kind, m, st) ==
    IF st.lo >= st.hi
    THEN [st |-> st, res |-> None]
    ELSE [st |-> [st EXCEPT !.lo = st.lo + 1],
          res |-> Some(IndClosure(kind, At(m.items, st.lo)))]

\* next_back of every iterator of lib.rs: [st, res]
IndIterNextBack(kind, m, st) ==
    IF st.lo >= st.hi
    THEN [st |-> st, res |-> None]
    ELSE [st |-> [st EXCEPT !.hi = st.hi - 1],
          res |-> Some(IndClosure(kind, At(m.items, st.hi - 1)))]

\* ------------------------------------------------------------- the script

\* Keys a caller can make up: positions up to one that is never allocated.
KeySpace == {Key(i, g) : i \in 0..MaxInserts, g \in 0..1}

\* No iterator borrows the maps.
NoIter ==
    [kind |-> "none",
     s |-> [lo |-> 0, hi |-> 0, count |-> 0], sfront |-> <<>>, sback |-> <<>>,
     snone |-> {},
     i |-> [lo |-> 0, hi |-> 0], ifront |-> <<>>, iback |-> <<>>, inone |-> {}]

\* No retain is running.
NoRetain ==
    [running |-> FALSE, spins |-> FALSE, i |-> 0, keep |-> {},
     evaluated |-> <<>>, start |-> <<>>]

\* The maps can be called: no iterator borrows them, none has consumed
\* them, no retain is in its loop.
Free == it.kind = "none" /\ ~rt.running

\* What the caller has seen of the direct layout: the positions of the keys
\* remove returned a value for, oldest first, less those insert has returned
\* since; and the largest len() so far.
Vacate(vacated, key) == Append(vacated, key.index)

Reuse(vacated, key) ==
    LET Other(p) == p # key.index IN SelectSeq(vacated, Other)

Max(a, b) == IF a >= b THEN a ELSE b

StdAlive == stdPanic = "none"

IndAlive == indPanic = "none"

Init ==
    /\ std = StdNew
    /\ ind = IndNew
    /\ stdPanic = "none"
    /\ indPanic = "none"
    /\ issued = <<>>
    /\ stdFreed = {}
    /\ indFreed = {}
    /\ last = [op |-> "new", sk |-> NoKey, ik |-> NoKey, sres |-> None, ires |-> None]
    /\ it = NoIter
    /\ stdVacated = <<>>
    /\ stdPeak = 0
    /\ rt = NoRetain

\* let k = slotmap.insert(v) on both maps.
Insert(v) ==
    /\ Len(issued) < MaxInserts
    /\ Free
    /\ StdAlive \/ IndAlive
    /\ LET s == IF StdAlive THEN StdInsert(std, v)
                ELSE [map |-> std, key |-> NoKey, panic |-> stdPanic]
           i == IF IndAlive THEN IndInsert(ind, v)
                ELSE [map |-> ind, key |-> NoKey, panic |-> indPanic]
       IN  /\ std' = s.map
           /\ ind' = i.map
           /\ stdPanic' = s.panic
           /\ indPanic' = i.panic
           /\ issued' = Append(issued, [sk |-> s.key, ik |-> i.key, value |-> v])
           /\ last' = [op |-> "insert", sk |-> s.key, ik |-> i.key,
                       sres |-> IF s.key # NoKey THEN Some(v) ELSE None,
                       ires |-> IF i.key # NoKey THEN Some(v) ELSE None]
           /\ stdVacated' = IF s.key # NoKey THEN Reuse(stdVacated, s.key)
                             ELSE stdVacated
           /\ stdPeak' = IF s.key # NoKey THEN Max(stdPeak, StdLen(s.map))
                          ELSE stdPeak
           /\ UNCHANGED <<stdFreed, indFreed, it, rt>>

\* slotmap.remove(k) on both maps, each with its own key.
RemoveStep(sk, ik) ==
    /\ Free
    /\ StdAlive \/ IndAlive
    /\ LET s == IF StdAlive THEN StdRemove(std, sk)
                ELSE [map |-> std, res |-> Dead, panic |-> stdPanic]
           i == IF IndAlive THEN IndRemove(ind, ik)
                ELSE [map |-> ind, res |-> Dead, panic |-> indPanic]
       IN  /\ std' = s.map
           /\ ind' = i.map
           /\ stdPanic' = s.panic
           /\ indPanic' = i.panic
           /\ stdFreed' = IF s.res.some THEN stdFreed \cup {sk} ELSE stdFreed
           /\ indFreed' = IF i.res.some THEN indFreed \cup {ik} ELSE indFreed
           /\ last' = [op |-> "remove", sk |-> sk, ik |-> ik,
                       sres |-> s.res, ires |-> i.res]
           /\ stdVacated' = IF s.res.some THEN Vacate(stdVacated, sk)
                             ELSE stdVacated
           /\ UNCHANGED <<issued, it, stdPeak, rt>>

\* remove with the key the n-th insert call returned.
Remove(n) == RemoveStep(issued[n].sk, issued[n].ik)

\* remove with a key that no insert call of the script returned and that
\* is live in neither map: out of range, never issued, or long stale.  (A
\* live key is a copy of an issued one: Remove covers it.)
RemoveInvalid(k) ==
    /\ ~StdGet(std, k).some
    /\ ~IndGet(ind, k).res.some
    /\ RemoveStep(k, k)

\* slotmap.get(k) on both maps.
GetStep(sk, ik) ==
    /\ Free
    /\ StdAlive \/ IndAlive
    /\ LET s == IF StdAlive THEN StdGet(std, sk) ELSE Dead
           i == IF IndAlive THEN IndGet(ind, ik)
                ELSE [res |-> Dead, panic |-> indPanic]
       IN  /\ indPanic' = i.panic
           /\ last' = [op |-> "get", sk |-> sk, ik |-> ik,
                       sres |-> s, ires |-> i.res]
           /\ UNCHANGED <<std, ind, stdPanic, issued, stdFreed, indFreed, it,
                          stdVacated, stdPeak, rt>>

\* get with the key the n-th insert call returned.
Get(n) == GetStep(issued[n].sk, issued[n].ik)

Next ==
    \/ \E v \in {ValueOf(Len(issued) + 1)} : Insert(v)
    \/ \E n \in 1..Len(issued) : Remove(n)
    \/ \E k \in KeySpace : RemoveInvalid(k)
    \/ \E n \in 1..Len(issued) : Get(n)

Spec == Init /\ [][Next]_vars

\* slotmap[k] on both maps, with the key the n-th insert call returned.
Index(n) ==
    /\ Free
    /\ StdAlive \/ IndAlive
    /\ LET sk == issued[n].sk
           ik == issued[n].ik
           s == IF StdAlive THEN StdIndex(std, sk)
                ELSE [res |-> Dead, panic |-> stdPanic]
           i == IF IndAlive THEN IndIndex(ind, ik)
                ELSE [res |-> Dead, panic |-> indPanic]
       IN  /\ stdPanic' = s.panic
           /\ indPanic' = i.panic
           /\ last' = [op |-> "index", sk |-> sk, ik |-> ik,
                       sres |-> s.res, ires |-> i.res]
           /\ UNCHANGED <<std, ind, issued, stdFreed, indFreed, it,
                          stdVacated, stdPeak, rt>>

\* &mut slotmap[k] on both maps (the reference is read, not written through).
IndexMut(n) ==
    /\ Free
    /\ StdAlive \/ IndAlive
    /\ LET sk == issued[n].sk
           ik == issued[n].ik
           s == IF StdAlive THEN StdIndexMut(std, sk)
                ELSE [res |-> Dead, panic |-> stdPanic]
           i == IF IndAlive THEN IndIndexMut(ind, ik)
                ELSE [res |-> Dead, panic |-> indPanic]
       IN  /\ stdPanic' = s.panic
           /\ indPanic' = i.panic
           /\ last' = [op |-> "index_mut", sk |-> sk, ik |-> ik,
                       sres |-> s.res, ires |-> i.res]
           /\ UNCHANGED <<std, ind, issued, stdFreed, indFreed, it,
                          stdVacated, stdPeak, rt>>

\* Scripts that also index.
NextIndex ==
    \/ \E v \in {ValueOf(Len(issued) + 1)} : Insert(v)
    \/ \E n \in 1..Len(issued) : Remove(n)
    \/ \E n \in 1..Len(issued) : Index(n)
    \/ \E n \in 1..Len(issued) : IndexMut(n)

SpecIndex == Init /\ [][NextIndex]_vars

\* The numbers of the values the map of lib.rs holds.
IndHeld == {ind.items[j].value[2] : j \in 1..Len(ind.items)}

\* One predicate for each way of keeping some of the values held.
Preds == SUBSET IndHeld

\* slotmap.retain(f) on the map of lib.rs; the direct layout has no retain.
Retain(S) ==
    /\ Free
    /\ IndAlive
    /\ LET r == IndRetain(ind, S)
       IN  /\ ind' = r.map
           /\ indPanic' = r.panic
           /\ indFreed' = indFreed \cup r.removed
           /\ last' = [op |-> "retain", sk |-> NoKey, ik |-> NoKey,
                       sres |-> None, ires |-> None, keep |-> S]
           /\ UNCHANGED <<std, stdPanic, issued, stdFreed, it,
                          stdVacated, stdPeak, rt>>

\* slotmap.retain(f) is called: let mut i = 0.
RetainBegin(S) ==
    /\ Free
    /\ IndAlive
    /\ rt' = [running |-> TRUE, spins |-> FALSE, i |-> 0, keep |-> S,
              evaluated |-> <<>>,
              start |-> [j \in 1..Len(ind.items) |-> ind.items[j].key]]
    /\ UNCHANGED <<std, ind, stdPanic, indPanic, issued, stdFreed, indFreed, last,
                   it, stdVacated, stdPeak>>

\* The loop of retain tests its condition and either returns or makes one
\* pass through its body.
RetainLoop ==
    /\ rt.running /\ ~rt.spins
    /\ IF ~(rt.i < Len(ind.items))
       THEN /\ rt' = NoRetain
            /\ last' = [op |-> "retain", sk |-> NoKey, ik |-> NoKey,
                        sres |-> None, ires |-> None, keep |-> rt.keep]
            /\ UNCHANGED <<ind, indPanic, indFreed>>
       ELSE LET r == IndRetainBody(ind, rt.i, rt.keep)
            IN  /\ ind' = r.map
                /\ indPanic' = r.panic
                /\ indFreed' = indFreed \cup r.removed
                /\ rt' = IF r.panic # "none" THEN NoRetain
                         ELSE [rt EXCEPT !.i = r.i, !.spins = r.spins,
                                         !.evaluated = Append(@, r.key)]
                /\ UNCHANGED last
    /\ UNCHANGED <<std, stdPanic, issued, stdFreed, it, stdVacated, stdPeak>>

\* Scripts of insert and retain, the loop of retain taken pass by pass.
NextRetainLoop ==
    \/ \E v \in {ValueOf(Len(issued) + 1)} : Insert(v)
    \/ \E S \in Preds : RetainBegin(S)
    \/ RetainLoop

\* A loop that is running goes on running: the code between two passes is
\* the loop's own condition.
SpecRetainLoop == Init /\ [][NextRetainLoop]_vars /\ WF_vars(RetainLoop)

\* Scripts of insert and retain: every removal from the map of lib.rs is
\* done by retain.
NextRetain ==
    \/ \E v \in {ValueOf(Len(issued) + 1)} : Insert(v)
    \/ \E S \in Preds : Retain(S)

SpecRetain == Init /\ [][NextRetain]_vars

\* The value a caller writes over v: another one, told from every value
\* of the map.
Written(v) == <<IF v[1] = "v" THEN "w" ELSE "v", v[2]>>

\* if let Some(v) = slotmap.get_mut(k) { *v = w } on both maps, with the
\* key the n-th insert call returned.
GetMutWrite(n) ==
    /\ Free
    /\ StdAlive \/ IndAlive
    /\ LET sk == issued[n].sk
           ik == issued[n].ik
           s == IF StdAlive THEN StdGetMut(std, sk) ELSE Dead
           i == IF IndAlive THEN IndGetMut(ind, ik)
                ELSE [res |-> Dead, panic |-> indPanic]
       IN  /\ std' = IF s.some
                     THEN StdAssign(std, StdPlace(std, sk), Written(s.value))
                     ELSE std
           /\ ind' = IF i.res.some
                     THEN IndAssign(ind, IndPlace(ind, ik), Written(i.res.value))
                     ELSE ind
           /\ indPanic' = i.panic
           /\ last' = [op |-> "get_mut", sk |-> sk, ik |-> ik,
                       sres |-> IF s.some THEN Some(Written(s.value)) ELSE s,
                       ires |-> IF i.res.some THEN Some(Written(i.res.value))
                                ELSE i.res]
           /\ UNCHANGED <<stdPanic, issued, stdFreed, indFreed, it,
                          stdVacated, stdPeak, rt>>

\* slotmap[k] = w on both maps, with a key that is live in each map that
\* is (Index and IndexMut are the calls with a stale key).
IndexMutWrite(n) ==
    /\ Free
    /\ StdAlive \/ IndAlive
    /\ StdAlive => StdGetMut(std, issued[n].sk).some
    /\ IndAlive => IndGetMut(ind, issued[n].ik).res.some
    /\ LET sk == issued[n].sk
           ik == issued[n].ik
           s == IF StdAlive THEN StdIndexMut(std, sk)
                ELSE [res |-> Dead, panic |-> stdPanic]
           i == IF IndAlive THEN IndIndexMut(ind, ik)
                ELSE [res |-> Dead, panic |-> indPanic]
       IN  /\ std' = IF s.res.some
                     THEN StdAssign(std, StdPlace(std, sk), Written(s.res.value))
                     ELSE std
           /\ ind' = IF i.res.some
                     THEN IndAssign(ind, IndPlace(ind, ik), Written(i.res.value))
                     ELSE ind
           /\ stdPanic' = s.panic
           /\ indPanic' = i.panic
           /\ last' = [op |-> "index_mut", sk |-> sk, ik |-> ik,
                       sres |-> IF s.res.some THEN Some(Written(s.res.value))
                                ELSE s.res,
                       ires |-> IF i.res.some THEN Some(Written(i.res.value))
                                ELSE i.res]
           /\ UNCHANGED <<issued, stdFreed, indFreed, it, stdVacated, stdPeak, rt>>

\* The direct layout has an iterator of this kind, and its map is alive.
StdIterates(kind) == StdAlive /\ kind \in StdIterKinds

ConsumingKinds == {"into_iter", "into_values"}

\* slotmap.iter(), .iter_mut(), .into_iter(), .keys(), ... on both maps.
IterNew(kind) ==
    /\ Free
    /\ StdIterates(kind) \/ IndAlive
    /\ it' = [NoIter EXCEPT
                !.kind = kind,
                !.s = IF StdIterates(kind) THEN StdIterNew(std) ELSE @,
                !.i = IF IndAlive THEN IndIterNew(ind) ELSE @]
    /\ last' = [op |-> kind, sk |-> NoKey, ik |-> NoKey, sres |-> None, ires |-> None]
    /\ UNCHANGED <<std, ind, stdPanic, indPanic, issued, stdFreed, indFreed,
                   stdVacated, stdPeak, rt>>

\* it.next() on the iterator of each map; an end that has returned None
\* is not asked again.
IterNext ==
    /\ it.kind \in IndIterKinds
    /\ "front" \notin it.snone \cup it.inone
    /\ LET s == StdIterNext(it.kind, std, it.s)
           i == IndIterNext(it.kind, ind, it.i)
       IN  it' = [it EXCEPT
                    !.s = IF StdIterates(it.kind) THEN s.st ELSE @,
                    !.sfront = IF StdIterates(it.kind) /\ s.res.some
                               THEN Append(@, s.res.value) ELSE @,
                    !.snone = IF StdIterates(it.kind) /\ ~s.res.some
                              THEN @ \cup {"front"} ELSE @,
                    !.i = IF IndAlive THEN i.st ELSE @,
                    !.ifront = IF IndAlive /\ i.res.some
                               THEN Append(@, i.res.value) ELSE @,
                    !.inone = IF IndAlive /\ ~i.res.some
                              THEN @ \cup {"front"} ELSE @]
    /\ UNCHANGED <<std, ind, stdPanic, indPanic, issued, stdFreed, indFreed, last,
                   stdVacated, stdPeak, rt>>

\* it.next_back() on the iterator of each map.
IterNextBack ==
    /\ it.kind \in IndIterKinds
    /\ "back" \notin it.snone \cup it.inone
    /\ LET s == StdIterNextBack(it.kind, std, it.s)
           i == IndIterNextBack(it.kind, ind, it.i)
       IN  it' = [it EXCEPT
                    !.s = IF StdIterates(it.kind) THEN s.st ELSE @,
                    !.sback = IF StdIterates(it.kind) /\ s.res.some
                              THEN Append(@, s.res.value) ELSE @,
                    !.snone = IF StdIterates(it.kind) /\ ~s.res.some
                              THEN @ \cup {"back"} ELSE @,
                    !.i = IF IndAlive THEN i.st ELSE @,
                    !.iback = IF IndAlive /\ i.res.some
                              THEN Append(@, i.res.value) ELSE @,
                    !.inone = IF IndAlive /\ ~i.res.some
                              THEN @ \cup {"back"} ELSE @]
    /\ UNCHANGED <<std, ind, stdPanic, indPanic, issued, stdFreed, indFreed, last,
                   stdVacated, stdPeak, rt>>

MutKinds == {"iter_mut", "values_mut"}

\* The value of what an iterator of a kind yields.
YieldedValue(kind, y) == IF kind = "values_mut" THEN y ELSE y[2]

\* for (_, v) in slotmap.iter_mut() { *v = w }, one turn: next() on the
\* iterator of each map and a write through the reference it yields.  The
\* reference points into the slot (the dense item) next has just passed.
IterNextWrite ==
    /\ it.kind \in MutKinds
    /\ "front" \notin it.snone \cup it.inone
    /\ LET s == StdIterNext(it.kind, std, it.s)
           i == IndIterNext(it.kind, ind, it.i)
           sw == StdIterates(it.kind) /\ s.res.some
           iw == IndAlive /\ i.res.some
       IN  /\ it' = [it EXCEPT
                       !.s = IF StdIterates(it.kind) THEN s.st ELSE @,
                       !.sfront = IF sw THEN Append(@, s.res.value) ELSE @,
                       !.snone = IF StdIterates(it.kind) /\ ~s.res.some
                                 THEN @ \cup {"front"} ELSE @,
                       !.i = IF IndAlive THEN i.st ELSE @,
                       !.ifront = IF iw THEN Append(@, i.res.value) ELSE @,
                       !.inone = IF IndAlive /\ ~i.res.some
                                 THEN @ \cup {"front"} ELSE @]
           /\ std' = IF sw
                     THEN StdAssign(std, s.st.count - 1,
                                    Written(YieldedValue(it.kind, s.res.value)))
                     ELSE std
           /\ ind' = IF iw
                     THEN IndAssign(ind, i.st.lo - 1,
                                    Written(YieldedValue(it.kind, i.res.value)))
                     ELSE ind
           /\ last' = [op |-> "next_mut",
                       sk |-> IF sw THEN s.res.value[1] ELSE NoKey,
                       ik |-> IF iw THEN At(ind.items, i.st.lo - 1).key ELSE NoKey,
                       sres |-> IF sw
                                THEN Some(Written(YieldedValue(it.kind, s.res.value)))
                                ELSE None,
                       ires |-> IF iw
                                THEN Some(Written(YieldedValue(it.kind, i.res.value)))
                                ELSE None]
    /\ UNCHANGED <<stdPanic, indPanic, issued, stdFreed, indFreed,
                   stdVacated, stdPeak, rt>>

\* The iterator is dropped: a borrowing one gives the maps back, a
\* consuming one has taken them for good.
IterDrop ==
    /\ it.kind \in IndIterKinds
    /\ it' = IF it.kind \in ConsumingKinds
             THEN [NoIter EXCEPT !.kind = "consumed"]
             ELSE NoIter
    /\ UNCHANGED <<std, ind, stdPanic, indPanic, issued, stdFreed, indFreed, last,
                   stdVacated, stdPeak, rt>>

\* Scripts that also iterate.
NextIter ==
    \/ \E v \in {ValueOf(Len(issued) + 1)} : Insert(v)
    \/ \E n \in 1..Len(issued) : Remove(n)
    \/ \E kind \in IndIterKinds : IterNew(kind)
    \/ IterNext
    \/ IterNextBack
    \/ IterDrop

SpecIter == Init /\ [][NextIter]_vars

\* Scripts that write through get_mut, index_mut and mutable iterators.
NextWrite ==
    \/ \E v \in {ValueOf(Len(issued) + 1)} : Insert(v)
    \/ \E n \in 1..Len(issued) : Remove(n)
    \/ \E n \in 1..Len(issued) : GetMutWrite(n)
    \/ \E n \in 1..Len(issued) : IndexMutWrite(n)
    \/ \E kind \in MutKinds : IterNew(kind)
    \/ IterNextWrite
    \/ IterDrop

SpecWrite == Init /\ [][NextWrite]_vars

\* ------------------------------------------------------------ the claims

\* Every key value a map of the bounded script can issue or be asked for.
AllKeys == {Key(i, g) : i \in 0..MaxInserts, g \in 0..MaxInserts}

Calls == 1..Len(issued)

\* The calls that returned a key.
StdCalls == {n \in Calls : issued[n].sk # NoKey}

IndCalls == {n \in Calls : issued[n].ik # NoKey}

StdPositions == 0..(Len(std.slots) - 1)

IndPositions == 0..(Len(ind.slots) - 1)

\* The keys insert has returned and remove has not yet returned a value for.
StdLiveKeys == {issued[n].sk : n \in StdCalls} \ stdFreed

IndLiveKeys == {issued[n].ik : n \in IndCalls} \ indFreed

\* C1: use-after-free immunity, both layouts.  Once remove(k) has returned a
\* value for k, get(k) and get_mut(k) return nothing in every later state,
\* also when a later insert has occupied k's position again.
C1_UseAfterFree ==
    /\ \A k \in stdFreed : StdGet(std, k) = None /\ StdGetMut(std, k) = None
    /\ \A k \in indFreed :
          /\ IndGet(ind, k) = [res |-> None, panic |-> "none"]
          /\ IndGetMut(ind, k) = [res |-> None, panic |-> "none"]

\* A removed key whose position a later insert occupies again, in each layout.
C1_Witness ==
    /\ \E k \in stdFreed : At(std.slots, k.index).tag = "Occupied"
    /\ \E k \in indFreed : At(ind.slots, k.index).tag = "Occupied"

\* C2: round trip, both layouts.  Right after an insert(v) that returned key
\* k, get(k) and get_mut(k) are Some(v).
C2_RoundTrip ==
    last.op = "insert" =>
        LET v == issued[Len(issued)].value
        IN  /\ last.sk # NoKey =>
                 /\ StdGet(std, last.sk) = Some(v)
                 /\ StdGetMut(std, last.sk) = Some(v)
            /\ last.ik # NoKey =>
                 /\ IndGet(ind, last.ik) = [res |-> Some(v), panic |-> "none"]
                 /\ IndGetMut(ind, last.ik) = [res |-> Some(v), panic |-> "none"]

\* An insert that reused a vacated position of a non-empty map, in each layout.
C2_Witness ==
    /\ last.op = "insert"
    /\ last.sk # NoKey /\ last.sk.generation > 0 /\ StdLen(std) > 1
    /\ last.ik # NoKey /\ last.ik.generation > 0 /\ IndLen(ind) > 1

\* C3: in the indirect layout insert returns a key after every sequence of
\* inserts and removes: the branch taken when the free list yields a position
\* whose slot is Occupied is never reached.
C3_IndInsertReturnsKey == indPanic # "unreachable"

\* C4: the indirect invariant.  Every Occupied slot at position p with
\* indirect index i has i within the dense array and items[i].key.index = p;
\* every dense item at index i is owned by a slot that is Occupied(i); the
\* occupied slots and the dense items correspond one to one.
C4_IndirectInvariant ==
    /\ \A p \in IndPositions :
          At(ind.slots, p).tag = "Occupied" =>
              /\ InRange(ind.items, At(ind.slots, p).n)
              /\ At(ind.items, At(ind.slots, p).n).key.index = p
    /\ \A i \in 0..(Len(ind.items) - 1) :
          /\ InRange(ind.slots, At(ind.items, i).key.index)
          /\ At(ind.slots, At(ind.items, i).key.index) = Occupied(i)
    /\ Cardinality({p \in IndPositions : At(ind.slots, p).tag = "Occupied"})
          = Len(ind.items)

\* A swap-removal has just moved a dense item: a remove returned a value and
\* left an occupied slot whose indirect index is not its own position.
C4_Witness ==
    /\ last.op = "remove"
    /\ last.ires.some
    /\ \E p \in IndPositions :
          At(ind.slots, p).tag = "Occupied" /\ At(ind.slots, p).n # p

\* C5: the len invariant, both layouts.  len() is the number of distinct keys
\* for which get succeeds, and is_empty() holds exactly when there is none.
C5_LenCountsLiveKeys ==
    /\ StdLen(std) = Cardinality({k \in AllKeys : StdGet(std, k).some})
    /\ StdIsEmpty(std) <=> {k \in AllKeys : StdGet(std, k).some} = {}
    /\ IndLen(ind) = Cardinality({k \in AllKeys : IndGet(ind, k).res.some})
    /\ IndIsEmpty(ind) <=> {k \in AllKeys : IndGet(ind, k).res.some} = {}

\* Two values are live beside a vacated slot, in each layout.
C5_Witness ==
    /\ StdLen(std) = 2 /\ Len(std.slots) > 2
    /\ IndLen(ind) = 2 /\ Len(ind.slots) > 2

\* C6: the two layouts satisfy one external contract.  The same script, keys
\* matched by the insert call that issued them, gives corresponding results
\* in both: neither map fails fatally, every insert returns a key in both,
\* the last call returned the same present/absent outcome and value, get
\* agrees on every issued key, and len agrees.
C6_SameContract ==
    /\ stdPanic = "none" /\ indPanic = "none"
    /\ \A n \in Calls : (issued[n].sk = NoKey) <=> (issued[n].ik = NoKey)
    /\ last.sres = last.ires
    /\ \A n \in Calls : StdGet(std, issued[n].sk) = IndGet(ind, issued[n].ik).res
    /\ StdLen(std) = IndLen(ind)
    /\ StdIsEmpty(std) <=> IndIsEmpty(ind)

\* C7: double free is safe, both layouts.  A remove(k) whose key is not live
\* (already removed, stale, out of range, never issued) returns nothing, does
\* not fail fatally and leaves the whole map as it was.
C7_InvalidRemoveIsNoOp ==
    [][ last'.op = "remove" /\ issued' = issued =>
          /\ (stdPanic = "none" /\ last'.sk \notin StdLiveKeys) =>
                 last'.sres = None /\ std' = std /\ stdPanic' = "none"
          /\ (indPanic = "none" /\ last'.ik \notin IndLiveKeys) =>
                 last'.ires = None /\ ind' = ind /\ indPanic' = "none"
      ]_vars

\* The second remove of one key has returned nothing, in both layouts, while
\* the key's position is occupied by a later value.
C7_Witness ==
    /\ last.op = "remove"
    /\ last.sk \in stdFreed /\ last.sres = None
    /\ At(std.slots, last.sk.index).tag = "Occupied"
    /\ last.ik \in indFreed /\ last.ires = None
    /\ At(ind.slots, last.ik.index).tag = "Occupied"

\* C8: in the indirect layout an insert that directly follows a successful
\* remove(k) reuses k's position: its key has k's position and k's
\* generation plus 1, and the number of slots does not grow.
C8_IndInsertReusesRemoved ==
    [][ (last.op = "remove" /\ last.ires.some /\ last'.op = "insert") =>
          /\ last'.ik.index = last.ik.index
          /\ last'.ik.generation = last.ik.generation + 1
          /\ Len(ind'.slots) = Len(ind.slots)
      ]_vars

\* The generations of the keys a layout has issued at position p, counted.
StdIssuedAt(p) == Cardinality({n \in StdCalls : issued[n].sk.index = p})

IndIssuedAt(p) == Cardinality({n \in IndCalls : issued[n].ik.index = p})

\* C9: generations, both layouts.  At every position the first occupant's
\* key carries generation 0 and each later occupant's key the previous
\* occupant's generation plus 1 (the k-th key issued at a position carries
\* generation k - 1); a Vacant slot stores the generation its next occupant
\* will receive, an Occupied one that of its occupant.  The generation of a
\* position is thereby the count of keys issued there (less one while
\* occupied), which never decreases.
C9_Generations ==
    /\ \A n \in StdCalls :
          issued[n].sk.generation =
              Cardinality({m \in StdCalls :
                             m < n /\ issued[m].sk.index = issued[n].sk.index})
    /\ \A n \in IndCalls :
          issued[n].ik.generation =
              Cardinality({m \in IndCalls :
                             m < n /\ issued[m].ik.index = issued[n].ik.index})
    /\ \A p \in StdPositions :
          At(std.slots, p).generation =
              IF At(std.slots, p).tag = "Vacant"
              THEN StdIssuedAt(p) ELSE StdIssuedAt(p) - 1
    /\ \A p \in IndPositions :
          IF At(ind.slots, p).tag = "Vacant"
          THEN At(ind.slots, p).n = IndIssuedAt(p)
          ELSE /\ InRange(ind.items, At(ind.slots, p).n)
               /\ At(ind.items, At(ind.slots, p).n).key.generation
                     = IndIssuedAt(p) - 1

\* A position has been vacated twice, in each layout.
C9_Witness ==
    /\ \E p \in StdPositions : At(std.slots, p) = StdVacant(2)
    /\ \E p \in IndPositions : At(ind.slots, p) = Vacant(2)

\* C10: key uniqueness, both layouts.  Over the lifetime of one map insert
\* never returns a key equal to one an earlier insert returned, removed or
\* not.
C10_KeysUnique ==
    /\ \A m, n \in StdCalls : m # n => issued[m].sk # issued[n].sk
    /\ \A m, n \in IndCalls : m # n => issued[m].ik # issued[n].ik

\* Two keys issued at one position, in each layout.
C10_Witness ==
    /\ \E m, n \in StdCalls : m # n /\ issued[m].sk.index = issued[n].sk.index
    /\ \E m, n \in IndCalls : m # n /\ issued[m].ik.index = issued[n].ik.index

\* The call that issued the key of the current (or, for a Vacant slot, the
\* last) occupant of position p: the latest call that returned a key there.
StdOccupantCall(p) ==
    CHOOSE n \in StdCalls :
        /\ issued[n].sk.index = p
        /\ \A m \in StdCalls : issued[m].sk.index = p => m <= n

IndOccupantCall(p) ==
    CHOOSE n \in IndCalls :
        /\ issued[n].ik.index = p
        /\ \A m \in IndCalls : issued[m].ik.index = p => m <= n

\* C11: get and get_mut succeed for a key exactly when its position is in
\* range, the slot there is Occupied and the key's generation is that of the
\* current occupant (the key insert returned for it); otherwise they return
\* nothing.  get_mut succeeds exactly when get does, with the same value.
\* Both layouts.
C11_GetSucceedsIff ==
    /\ \A k \in AllKeys :
          /\ StdGet(std, k).some <=>
                /\ InRange(std.slots, k.index)
                /\ At(std.slots, k.index).tag = "Occupied"
                /\ k.generation = issued[StdOccupantCall(k.index)].sk.generation
          /\ ~StdGet(std, k).some => StdGet(std, k) = None
          /\ StdGetMut(std, k) = StdGet(std, k)
    /\ \A k \in AllKeys :
          /\ IndGet(ind, k).res.some <=>
                /\ InRange(ind.slots, k.index)
                /\ At(ind.slots, k.index).tag = "Occupied"
                /\ k.generation = issued[IndOccupantCall(k.index)].ik.generation
          /\ ~IndGet(ind, k).res.some => IndGet(ind, k).res = None
          /\ IndGet(ind, k).panic = "none"
          /\ IndGetMut(ind, k) = IndGet(ind, k)

\* Each layout holds a reoccupied position (its old key is stale), a vacated
\* position, and positions out of range.
C11_Witness ==
    /\ \E k \in stdFreed : At(std.slots, k.index).tag = "Occupied"
    /\ \E p \in StdPositions : At(std.slots, p).tag = "Vacant"
    /\ \E k \in indFreed : At(ind.slots, k.index).tag = "Occupied"
    /\ \E p \in IndPositions : At(ind.slots, p).tag = "Vacant"
    /\ Len(std.slots) < MaxInserts /\ Len(ind.slots) < MaxInserts

\* C12: in both layouts remove(k) for a key on which get succeeds returns
\* exactly the value stored under k, whatever the order of removals, and
\* len() decreases by exactly one.
C12_RemoveReturnsStored ==
    [][ last'.op = "remove" =>
          /\ (stdPanic = "none" /\ StdGet(std, last'.sk).some) =>
                /\ last'.sres = StdGet(std, last'.sk)
                /\ StdLen(std') = StdLen(std) - 1
          /\ (indPanic = "none" /\ IndGet(ind, last'.ik).res.some) =>
                /\ last'.ires = IndGet(ind, last'.ik).res
                /\ IndLen(ind') = IndLen(ind) - 1
      ]_vars

\* A remove has returned a value that was not the latest inserted, and left
\* two values live, in each layout.
C12_Witness ==
    /\ last.op = "remove"
    /\ last.sres.some /\ last.sres.value # ValueOf(Len(issued))
    /\ last.ires.some /\ last.ires.value # ValueOf(Len(issued))
    /\ StdLen(std) >= 2 /\ IndLen(ind) >= 2

\* C13: the indexing operator map[k], shared and mutable, returns what
\* get(k) returns whenever get(k) succeeds and panics exactly when get(k)
\* returns nothing; either way the map is left unchanged.
C13_IndexIsGetOrPanic ==
    [][ (last'.op \in {"index", "index_mut"} /\ last' # last) =>
          /\ stdPanic = "none" =>
                /\ std' = std
                /\ IF StdGet(std, last'.sk).some
                   THEN last'.sres = StdGet(std, last'.sk) /\ stdPanic' = "none"
                   ELSE stdPanic' # "none"
          /\ indPanic = "none" =>
                /\ ind' = ind
                /\ IF IndGet(ind, last'.ik).res.some
                   THEN last'.ires = IndGet(ind, last'.ik).res /\ indPanic' = "none"
                   ELSE indPanic' # "none"
      ]_vars

\* Indexing a non-empty map with a removed key has panicked, in each layout.
C13_Witness ==
    /\ last.op \in {"index", "index_mut"}
    /\ stdPanic = "unwrap" /\ last.sk \in stdFreed /\ StdLen(std) > 0
    /\ indPanic = "unwrap" /\ last.ik \in indFreed /\ IndLen(ind) > 0

\* ------------------------------------------------------------ iteration

Reverse(s) == [j \in 1..Len(s) |-> s[Len(s) + 1 - j]]

\* The pairs of a map's iterator when only next is called, to the end.
RECURSIVE StdCollect(_, _, _)
StdCollect(kind, m, st) ==
    LET r == StdIterNext(kind, m, st)
    IN  IF r.res.some THEN <<r.res.value>> \o StdCollect(kind, m, r.st) ELSE <<>>

RECURSIVE IndCollect(_, _, _)
IndCollect(kind, m, st) ==
    LET r == IndIterNext(kind, m, st)
    IN  IF r.res.some THEN <<r.res.value>> \o IndCollect(kind, m, r.st) ELSE <<>>

\* An iterator of the direct (indirect) layout is in use.
StdIterating == it.kind \in StdIterKinds /\ StdAlive

IndIterating == it.kind \in IndIterKinds /\ IndAlive

\* Only next has been called; it has returned None.
StdForwardDone == StdIterating /\ it.sback = <<>> /\ "front" \in it.snone

IndForwardDone == IndIterating /\ it.iback = <<>> /\ "front" \in it.inone

StdOccupiedPositions == {p \in StdPositions : At(std.slots, p).tag = "Occupied"}

\* C14: direct-layout iteration.  The forward iterator yields one pair for
\* each Occupied slot and none for a Vacant one, in strictly ascending slot
\* position; each yielded key has the slot's position and its current
\* generation, so get(key) returns the yielded value.
C14_StdIteration ==
    (StdIterating /\ it.sback = <<>>) =>
        /\ \A j \in 1..Len(it.sfront) :
              LET key == it.sfront[j][1]
              IN  /\ key.index \in StdOccupiedPositions
                  /\ key.generation = At(std.slots, key.index).generation
                  /\ StdGet(std, key) = Some(it.sfront[j][2])
        /\ \A j, k \in 1..Len(it.sfront) :
              j < k => it.sfront[j][1].index < it.sfront[k][1].index
        /\ StdForwardDone =>
              {it.sfront[j][1].index : j \in 1..Len(it.sfront)} = StdOccupiedPositions

\* A finished forward traversal that stepped over a Vacant slot between two
\* Occupied ones.
C14_Witness ==
    /\ StdForwardDone
    /\ \E j \in 1..(Len(it.sfront) - 1) :
          \E p \in StdPositions :
              /\ it.sfront[j][1].index < p /\ p < it.sfront[j + 1][1].index
              /\ At(std.slots, p).tag = "Vacant"

\* The live pairs of the indirect layout, by its get.
IndLivePairs == {<<k, IndGet(ind, k).res.value>> : k \in IndLiveKeys}

\* C15: indirect-layout iteration.  The iterator yields exactly len() pairs,
\* one for each live key and none for a removed key; every yielded (k, v)
\* has get(k) = Some(v); the set of yielded pairs is the set of live pairs.
C15_IndIteration ==
    (IndIterating /\ it.kind \in StdIterKinds /\ it.iback = <<>>) =>
        /\ \A j \in 1..Len(it.ifront) :
              /\ IndGet(ind, it.ifront[j][1]).res = Some(it.ifront[j][2])
              /\ it.ifront[j][1] \notin indFreed
        /\ IndForwardDone =>
              /\ Len(it.ifront) = IndLen(ind)
              /\ {it.ifront[j] : j \in 1..Len(it.ifront)} = IndLivePairs
              /\ Cardinality(IndLivePairs) = IndLen(ind)

\* A finished traversal of a map with removed keys whose first pair is not
\* the oldest live one.
C15_Witness ==
    /\ IndForwardDone /\ it.kind \in StdIterKinds
    /\ indFreed # {}
    /\ Len(it.ifront) >= 2
    /\ it.ifront[1][2][2] > it.ifront[2][2][2]

\* The dense order of the indirect layout: the keys iter() yields.
IndOrder(m) ==
    LET pairs == IndCollect("iter", m, IndIterNew(m))
    IN  [j \in 1..Len(pairs) |-> pairs[j][1]]

\* s without its j-th element, the others in order.
Without(s, j) == SubSeq(s, 1, j - 1) \o SubSeq(s, j + 1, Len(s))

\* C16: indirect-layout order under removal.  Removing the item at the last
\* dense index leaves the order of the others unchanged; removing the item
\* at a dense index that is not last moves the last item to that index and
\* leaves the relative order of every other item unchanged.
C16_IndOrderUnderRemoval ==
    [][ (last'.op = "remove" /\ last' # last /\ indPanic = "none"
         /\ IndGet(ind, last'.ik).res.some) =>
          LET old == IndOrder(ind)
              new == IndOrder(ind')
              i == CHOOSE j \in 1..Len(old) : old[j] = last'.ik
          IN  /\ Len(new) = Len(old) - 1
              /\ i = Len(old) => new = SubSeq(old, 1, Len(old) - 1)
              /\ i < Len(old) =>
                    /\ new[i] = old[Len(old)]
                    /\ Without(new, i) = SubSeq(Without(old, i), 1, Len(old) - 2)
      ]_vars

\* a, b, c inserted, b removed: the iteration yields a then c.
C16_Witness ==
    /\ last.op = "remove" /\ last.ires = Some(ValueOf(2))
    /\ Len(issued) = 3 /\ indFreed = {issued[2].ik}
    /\ IndOrder(ind) = <<issued[1].ik, issued[3].ik>>

\* The keys whose pair is live in m and satisfies the predicate.
Satisfying(m, S) ==
    {k \in AllKeys : IndGet(m, k).res.some /\ F(S, k, IndGet(m, k).res.value)}

\* C18: retain(f) on the SlotMap of lib.rs.  Afterwards the live pairs are
\* the pairs that were live before and satisfy f, each under its original
\* key with its value; get returns nothing for every other key; len() is
\* the number of satisfying pairs.
C18_Retain ==
    [][ (last'.op = "retain" /\ indPanic = "none") =>
          LET S == last'.keep
              sat == Satisfying(ind, S)
          IN  /\ indPanic' = "none"
              /\ \A k \in AllKeys :
                    IndGet(ind', k).res =
                        IF k \in sat THEN IndGet(ind, k).res ELSE None
              /\ IndLen(ind') = Cardinality(sat)
              /\ S = IndHeld => IndLen(ind') = IndLen(ind)
              /\ S = {} => IndIsEmpty(ind')
      ]_vars

\* A retain that removed two pairs the direct layout still holds and kept
\* one.
C18_Witness ==
    /\ last.op = "retain"
    /\ IndLen(ind) >= 1
    /\ Cardinality({n \in Calls : /\ issued[n].value[2] \notin last.keep
                                  /\ issued[n].ik \in indFreed
                                  /\ StdGet(std, issued[n].sk).some}) >= 2

\* C19: no partial failure, both layouts.  Whenever insert, remove or
\* indexing fails fatally, the slots, the free list and the dense array are
\* what they were before the call.
C19_NoPartialFailure ==
    [][ /\ (stdPanic = "none" /\ stdPanic' # "none") => std' = std
        /\ (indPanic = "none" /\ indPanic' # "none") => ind' = ind
      ]_vars

\* The occupied slots of the direct layout, by ascending position.
StdRef ==
    LET all == [p \in 1..Len(std.slots) |->
                   <<Key(p - 1, std.slots[p].generation), std.slots[p].value,
                     std.slots[p].tag>>]
        Occ(x) == x[3] = "Occupied"
        sel == SelectSeq(all, Occ)
    IN  [j \in 1..Len(sel) |-> <<sel[j][1], sel[j][2]>>]

\* What an iterator of a kind shows of a pair.
Shown(kind, pair) ==
    IF kind = "keys" THEN pair[1]
    ELSE IF kind \in {"values", "values_mut", "into_values"} THEN pair[2]
    ELSE pair

\* The dense array of the indirect layout, as an iterator of a kind shows it.
IndRef(kind) ==
    [j \in 1..Len(ind.items) |->
        Shown(kind, <<ind.items[j].key, ind.items[j].value>>)]

\* front and back are the two ends of ref, they do not overlap, and once
\* an end has returned None they are all of ref.
TwoEnds(ref, front, back, none) ==
    /\ Len(front) + Len(back) <= Len(ref)
    /\ front = SubSeq(ref, 1, Len(front))
    /\ Reverse(back) = SubSeq(ref, Len(ref) - Len(back) + 1, Len(ref))
    /\ none # {} => Len(front) + Len(back) = Len(ref)

\* C17: double-ended iteration.  An iterator consumed only with next_back
\* yields the reverse of the forward sequence; when next and next_back are
\* mixed every pair is yielded exactly once before both ends return nothing.
\* Direct layout and the SlotMap of lib.rs.
C17_DoubleEnded ==
    /\ StdIterating => TwoEnds(StdRef, it.sfront, it.sback, it.snone)
    /\ IndIterating => TwoEnds(IndRef(it.kind), it.ifront, it.iback, it.inone)
    /\ (StdIterating /\ it.sfront = <<>> /\ "back" \in it.snone) =>
          it.sback = Reverse(StdCollect(it.kind, std, StdIterNew(std)))
    /\ (IndIterating /\ it.ifront = <<>> /\ "back" \in it.inone) =>
          it.iback = Reverse(IndCollect(it.kind, ind, IndIterNew(ind)))

\* An iterator of both maps used from both ends until an end returned
\* None, over a direct layout with a Vacant slot.
C17_Witness ==
    /\ StdIterating /\ IndIterating
    /\ it.snone # {} /\ it.inone # {}
    /\ Len(it.sfront) >= 1 /\ Len(it.sback) >= 2
    /\ Len(it.ifront) >= 1 /\ Len(it.iback) >= 2
    /\ \E p \in StdPositions : At(std.slots, p).tag = "Vacant"

\* The sequence insert built, for a map nothing was removed from.
StdInsertionOrder == [n \in 1..Len(issued) |-> <<issued[n].sk, issued[n].value>>]

IndInsertionOrder == [n \in 1..Len(issued) |-> <<issued[n].ik, issued[n].value>>]

FreeIsVacant(slots, free) ==
    /\ {free[j] : j \in 1..Len(free)}
          = {p \in 0..(Len(slots) - 1) : At(slots, p).tag = "Vacant"}
    /\ \A i, j \in 1..Len(free) : i # j => free[i] # free[j]

\* C21: indirect-layout free list.  remove(key) pushes the removed key's
\* slot position, so the free list holds exactly the positions of the
\* Vacant slots, each once, and never the position of an Occupied slot.
C21_IndFreeIsVacant == FreeIsVacant(ind.slots, ind.free)

\* C22: direct-layout free list.  The free list holds exactly the positions
\* of the Vacant slots, each once, and never the position of an Occupied
\* slot; the unreachable branches of insert and remove are never taken.
C22_StdFreeIsVacant ==
    /\ FreeIsVacant(std.slots, std.free)
    /\ stdPanic = "none"

\* Two positions wait on the free list beside an Occupied slot, after a
\* position has been reused.
C22_Witness ==
    /\ Len(std.free) >= 2
    /\ StdLen(std) >= 1
    /\ \E n \in StdCalls : issued[n].sk.generation > 0

\* The keys a caller can make up: every position up to one past the slots
\* the script can create, every generation it can reach.
ProbeKeys == AllKeys \cup KeySpace

\* C23: frame of insert and remove, both layouts.  A successful insert, and
\* a successful remove(k), leave get(k') as it was for every other key k':
\* a live key stays live with its value, also when the indirect layout
\* moves its dense item, and a dead key stays dead.
C23_Frame ==
    [][ /\ (stdPanic = "none" /\ last'.op \in {"insert", "remove"}
             /\ last'.sres.some) =>
               \A k \in ProbeKeys \ {last'.sk} : StdGet(std', k) = StdGet(std, k)
        /\ (indPanic = "none" /\ last'.op \in {"insert", "remove"}
             /\ last'.ires.some) =>
               \A k \in ProbeKeys \ {last'.ik} : IndGet(ind', k) = IndGet(ind, k)
      ]_vars

\* A remove has moved the dense item of a live key to another index while
\* another key was already dead.
C23_Witness ==
    /\ last.op = "remove" /\ last.sres.some /\ last.ires.some
    /\ Cardinality(indFreed) >= 2
    /\ \E n \in IndCalls :
          /\ IndGet(ind, issued[n].ik).res.some
          /\ At(ind.slots, issued[n].ik.index).n # n - 1

\* C25: in the indirect layout get, get_mut and remove never fail fatally
\* for any key, live, stale, out of range or never issued: the indirect
\* index of an Occupied slot is within the dense array, and remove's
\* validated slot is Occupied with a non-empty dense array.
C25_IndNeverFailsFatally ==
    /\ indPanic \in {"none", "unreachable"}
    /\ last.op \in {"get", "remove"} => indPanic = "none" \/ last.ires = Dead
    /\ \A k \in ProbeKeys :
          /\ IndGet(ind, k).panic = "none"
          /\ IndGetMut(ind, k).panic = "none"
          /\ IndRemove(ind, k).panic = "none"
          /\ IndGet(ind, k).res.some =>
                /\ At(ind.slots, k.index).tag = "Occupied"
                /\ ind.items # <<>>

\* A second remove of one key has returned nothing, with a live key whose
\* dense item has moved and a position no slot has yet.
C25_Witness ==
    /\ last.op = "remove" /\ last.ik \in indFreed /\ ~last.ires.some
    /\ indPanic = "none"
    /\ \E p \in IndPositions :
          At(ind.slots, p).tag = "Occupied" /\ At(ind.slots, p).n # p
    /\ \E k \in ProbeKeys : ~InRange(ind.slots, k.index)

\* C27: in the indirect layout len(), the dense array's length, is the
\* number of slots minus the free list's length.
C27_IndLenFormula == IndLen(ind) = Len(ind.slots) - Len(ind.free)

\* -------------------------------------------------- direct-layout storage

StdVacantPositions == {p \in StdPositions : At(std.slots, p).tag = "Vacant"}

\* C24: direct-layout LIFO reuse.  With a Vacant slot, insert places the
\* value at the position of the most recently removed key whose position
\* has not been reused and returns it with the generation stored in the
\* Vacant slot; a slot with generation 0 is appended only when none is Vacant.
C24_StdLifoReuse ==
    [][ (last'.op = "insert" /\ stdPanic = "none") =>
          IF StdVacantPositions # {}
          THEN /\ stdVacated # <<>>
               /\ At(std.slots, Last(stdVacated)).tag = "Vacant"
               /\ last'.sk = Key(Last(stdVacated),
                                 At(std.slots, Last(stdVacated)).generation)
               /\ StdGet(std', last'.sk) = last'.sres
               /\ last'.sres.some
               /\ Len(std'.slots) = Len(std.slots)
          ELSE /\ last'.sk = Key(Len(std.slots), 0)
               /\ StdGet(std', last'.sk) = last'.sres
               /\ last'.sres.some
               /\ Len(std'.slots) = Len(std.slots) + 1
      ]_vars

\* An insert has reused the later vacated of two positions; the earlier one
\* still waits.
C24_Witness ==
    /\ last.op = "insert" /\ last.sk.generation > 0
    /\ stdVacated # <<>>
    /\ \A j \in 1..Len(stdVacated) :
          At(std.slots, stdVacated[j]).tag = "Vacant"

\* C29: direct-layout storage growth.  The number of slots never decreases
\* and equals the largest value len() has had so far.
C29_StdGrowth ==
    [][ /\ Len(std.slots) = stdPeak
        /\ Len(std'.slots) = stdPeak'
        /\ Len(std'.slots) >= Len(std.slots)
      ]_vars

\* All inserts of the script made, half of them into reused positions:
\* fewer slots than inserts, every slot Occupied.
C29_Witness ==
    /\ Len(issued) = MaxInserts
    /\ Len(std.slots) = StdLen(std)
    /\ Len(std.slots) < MaxInserts /\ Len(std.slots) >= 2
    /\ stdPeak = Len(std.slots)

\* --------------------------------------------------------- retain's loop

Range(seq) == {seq[j] : j \in 1..Len(seq)}

\* C26: retain(f) in lib.rs terminates and evaluates the predicate exactly
\* once for each item that was live when it was called.  Every pass either
\* advances the index or removes the item at the index, and that removal
\* succeeds; the item at the index has not been evaluated before.
C26_RetainTerminates ==
    /\ [][ /\ (rt.running /\ rt.i < Len(ind.items)) =>
                LET key == At(ind.items, rt.i).key
                    val == At(ind.items, rt.i).value
                IN  /\ indPanic' = "none" /\ rt'.running /\ ~rt'.spins
                    /\ key \notin Range(rt.evaluated)
                    /\ rt'.evaluated = Append(rt.evaluated, key)
                    /\ IF F(rt.keep, key, val)
                       THEN rt'.i = rt.i + 1 /\ ind' = ind
                       ELSE /\ rt'.i = rt.i
                            /\ Len(ind'.items) = Len(ind.items) - 1
                            /\ IndGet(ind, key).res = Some(val)
                            /\ ~IndGet(ind', key).res.some
           /\ (rt.running /\ ~(rt.i < Len(ind.items))) =>
                /\ Len(rt.evaluated) = Len(rt.start)
                /\ Range(rt.evaluated) = Range(rt.start)
         ]_vars
    /\ (rt.running ~> ~rt.running)

\* In the middle of a retain: an item has been removed, and the item now at
\* the index is one swap_remove has put there.
C26_Witness ==
    /\ rt.running /\ rt.i >= 1 /\ rt.i < Len(ind.items)
    /\ Len(rt.evaluated) > rt.i
    /\ At(ind.items, rt.i).key # rt.start[rt.i + 1]

\* ---------------------------------------------------------------- writes

WriteOps == {"get_mut", "index_mut", "next_mut"}

\* Everything of a map but its values.
StdShape(m) ==
    [slots |-> [p \in 1..Len(m.slots) |->
                   [tag |-> m.slots[p].tag, generation |-> m.slots[p].generation]],
     free |-> m.free,
     len |-> StdLen(m)]

IndShape(m) ==
    [slots |-> m.slots,
     keys |-> [j \in 1..Len(m.items) |-> m.items[j].key],
     free |-> m.free,
     len |-> IndLen(m)]

\* C28: writes through get_mut, index_mut or mutable iteration change only
\* the addressed value.  The value written under live key k is what get(k)
\* and remove(k) return afterwards; every key, every other value, every
\* slot state and generation, the free list and len() stay as they were;
\* mutable iteration visits each live value exactly once.
C28_WritesOnlyValue ==
    [][ /\ (stdPanic = "none" /\ last'.op \in WriteOps) =>
              IF last'.sres.some
              THEN /\ StdGet(std, last'.sk).some
                   /\ \A k \in ProbeKeys :
                         StdGet(std', k) = IF k = last'.sk THEN last'.sres
                                           ELSE StdGet(std, k)
                   /\ StdRemove(std', last'.sk).res = last'.sres
                   /\ StdShape(std') = StdShape(std)
              ELSE std' = std
        /\ (indPanic = "none" /\ last'.op \in WriteOps) =>
              IF last'.ires.some
              THEN /\ IndGet(ind, last'.ik).res.some
                   /\ \A k \in ProbeKeys :
                         IndGet(ind', k).res = IF k = last'.ik THEN last'.ires
                                               ELSE IndGet(ind, k).res
                   /\ IndRemove(ind', last'.ik).res = last'.ires
                   /\ IndShape(ind') = IndShape(ind)
              ELSE ind' = ind
        /\ (it.kind \in MutKinds /\ StdForwardDone) =>
              /\ Len(it.sfront) = StdLen(std)
              /\ \A j \in 1..Len(it.sfront) :
                    StdGet(std, it.sfront[j][1]) = Some(Written(it.sfront[j][2]))
        /\ (it.kind \in MutKinds /\ IndForwardDone) =>
              /\ Len(it.ifront) = IndLen(ind)
              /\ \A j \in 1..Len(it.ifront) :
                    ind.items[j].value = Written(YieldedValue(it.kind, it.ifront[j]))
      ]_vars

\* A mutable iteration has written every value of both maps, one of them
\* for the second time, past a Vacant slot of the direct layout and over a
\* dense array whose order is not the order of the slots.
C28_Witness ==
    /\ last.op = "next_mut"
    /\ StdForwardDone /\ IndForwardDone
    /\ Len(it.sfront) >= 2 /\ Len(it.ifront) >= 2
    /\ StdVacantPositions # {}
    /\ \E j \in 1..Len(it.sfront) : it.sfront[j][2][1] = "w"
    /\ \E j \in 1..Len(ind.items) : ind.items[j].key.index # j - 1

============================================================================
